---- MODULE Spec2Model ----
(***************************************************************************)
(* A model of stix2nx: the conversion of STIX bundles into a NetworkX      *)
(* graph (src/src/stix2nx).  A session is one call of stix_to_graph: the   *)
(* graph mode is validated, the source is parsed into bundles, and         *)
(* convert_bundle is applied to each bundle in turn on one shared graph.   *)
(*                                                                         *)
(* Python values are modelled as tagged records (see the constructors      *)
(* below); a STIX object is a value of kind "dict".  The graph is the      *)
(* state of a networkx DiGraph / MultiDiGraph as add_node and add_edge     *)
(* leave it.                                                               *)
(***************************************************************************)
EXTENDS Integers, Sequences, FiniteSets, TLC

VARIABLES
    pc,            \* position in stix_to_graph: call, parse, convert, returned, raised
    graph_type,    \* argument of stix_to_graph
    include_scos,  \* argument of stix_to_graph
    source,        \* argument of stix_to_graph
    bundles,       \* result of parse_source
    idx,           \* number of bundles handed to convert_bundle so far
    graph,         \* the graph accumulator
    warnings,      \* number of logger.warning calls so far
    error          \* the exception that ended the session, or "none"

vars == <<pc, graph_type, include_scos, source, bundles, idx, graph, warnings, error>>

(***************************************************************************)
(* Bounds of the model.                                                    *)
(***************************************************************************)
MaxObjs == 3       \* objects in one session, over all its bundles
MaxBundles == 2    \* bundles in one session

(***************************************************************************)
(* Python values: a record with one field, named after the kind of the     *)
(* value, that holds the text of a str, the value of a number or bool, the *)
(* items of a list, or the mapping of a dict.                              *)
(***************************************************************************)
None == [null |-> "None"]

Str(x) == [str |-> x]

Num(i) == [num |-> i]

Bool(b) == [bool |-> b]

List(q) == [list |-> q]

Dict(f) == [dict |-> f]

Kind(v) == CHOOSE k \in DOMAIN v : TRUE

\* Python truth value of a value ("not x" is ~Truthy(x)).
Truthy(v) ==
    CASE Kind(v) = "str" -> v.str # ""
      [] Kind(v) = "num" -> v.num # 0
      [] Kind(v) = "bool" -> v.bool
      [] Kind(v) = "null" -> FALSE
      [] Kind(v) = "list" -> Len(v.list) > 0
      [] Kind(v) = "dict" -> DOMAIN v.dict # {}

\* Lists and dicts are unhashable: using one as a dict key or testing it for
\* membership in a frozenset raises TypeError.
Hashable(v) == Kind(v) \notin {"list", "dict"}

isinstance_dict(v) == Kind(v) = "dict"

isinstance_list(v) == Kind(v) = "list"

\* obj.get(f, dflt) and obj.get(f)
GetOr(obj, f, dflt) == IF f \in DOMAIN obj.dict THEN obj.dict[f] ELSE dflt

Get(obj, f) == GetOr(obj, f, None)

\* dict.update(new) on the mapping old
Update(old, new) ==
    [f \in DOMAIN old \cup DOMAIN new |-> IF f \in DOMAIN new THEN new[f] ELSE old[f]]

\* attrs.pop(f, None) for each f of fs
Pop(attrs, fs) == [f \in DOMAIN attrs \ fs |-> attrs[f]]

(***************************************************************************)
(* utils.py: the type classifier.                                          *)
(***************************************************************************)
\* The domain-object types with an observable type among them
SDO_TYPES_WithIpv4 ==
    {"attack-pattern", "campaign", "course-of-action", "grouping", "identity",
     "incident", "indicator", "infrastructure", "intrusion-set", "location",
     "malware", "malware-analysis", "note", "observed-data", "opinion", "report",
     "threat-actor", "tool", "vulnerability", "ipv4-addr"}

SDO_TYPES ==
    {"attack-pattern", "campaign", "course-of-action", "grouping", "identity",
     "incident", "indicator", "infrastructure", "intrusion-set", "location",
     "malware", "malware-analysis", "note", "observed-data", "opinion", "report",
     "threat-actor", "tool", "vulnerability"}

SCO_TYPES ==
    {"artifact", "autonomous-system", "directory", "domain-name", "email-addr",
     "email-message", "file", "ipv4-addr", "ipv6-addr", "mac-addr", "mutex",
     "network-traffic", "process", "software", "url", "user-account",
     "windows-registry-key", "x509-certificate"}

\* The skip set without its second type
SKIP_TYPES_MarkingOnly == {"marking-definition"}

SKIP_TYPES == {"marking-definition", "language-content"}

CUSTOM_SDO_PREFIXES == {"x-mitre-"}

\* s.startswith(p)
StartsWith(s, p) == Len(s) >= Len(p) /\ SubSeq(s, 1, Len(p)) = p

\* "v in <frozenset of str>" for a hashable v
InTypes(v, types) == Kind(v) = "str" /\ v.str \in types

\* The exception a classifier call raises on obj, or "none": the frozenset
\* membership test hashes the type, and is_sdo calls startswith on it.
is_skippable_raises(obj) ==
    IF Hashable(GetOr(obj, "type", Str(""))) THEN "none" ELSE "TypeError"

is_skippable(obj) == InTypes(GetOr(obj, "type", Str("")), SKIP_TYPES)

is_relationship(obj) == Get(obj, "type") = Str("relationship")

is_sighting(obj) == Get(obj, "type") = Str("sighting")

is_sdo_raises(obj) ==
    LET obj_type == GetOr(obj, "type", Str(""))
    IN  IF ~Hashable(obj_type) THEN "TypeError"
        ELSE IF Kind(obj_type) # "str" THEN "AttributeError"
        ELSE "none"

is_sdo(obj) ==
    LET obj_type == GetOr(obj, "type", Str(""))
    IN  \/ InTypes(obj_type, SDO_TYPES)
        \/ Kind(obj_type) = "str" /\ \E prefix \in CUSTOM_SDO_PREFIXES : StartsWith(obj_type.str, prefix)

\* A classifier that knows no observable type
is_sco_Never(obj) == FALSE

is_sco(obj) == InTypes(GetOr(obj, "type", Str("")), SCO_TYPES)

(***************************************************************************)
(* The graph accumulator: a networkx DiGraph or MultiDiGraph.  node maps   *)
(* each node key to its attribute mapping.  adj maps each connected        *)
(* ordered pair <<u, v>> to the edge's attribute mapping (DiGraph) or to   *)
(* the pair's key dict, edge key -> attribute mapping (MultiDiGraph).      *)
(* A stepping state st carries the graph, the warning count and the        *)
(* exception raised so far.                                                *)
(***************************************************************************)
EmptyGraph(kind) == [kind |-> kind, node |-> <<>>, adj |-> <<>>]

EmptyAttrs == <<>>

Warn(st) == [st EXCEPT !.warnings = @ + 1]

Raise(st, e) == [st EXCEPT !.error = e]

\* An endpoint creation that empties the attributes of an existing node
TouchNode_Resets(g, u) == [g EXCEPT !.node = (u :> EmptyAttrs) @@ @]

\* "if u not in self._succ: ... self._node[u] = {}" of add_edge
TouchNode(g, u) ==
    IF u \in DOMAIN g.node THEN g ELSE [g EXCEPT !.node = (u :> EmptyAttrs) @@ @]

\* add_node that forgets the other nodes
add_node_ClearsOthers(st, node_for_adding, attr) ==
    IF ~Hashable(node_for_adding) THEN Raise(st, "TypeError")
    ELSE [st EXCEPT !.graph.node = (node_for_adding :> attr)]

\* add_node that replaces the attributes of an existing node
add_node_Replaces(st, node_for_adding, attr) ==
    IF ~Hashable(node_for_adding) THEN Raise(st, "TypeError")
    ELSE IF node_for_adding \in DOMAIN st.graph.node
    THEN [st EXCEPT !.graph.node[node_for_adding] = attr]
    ELSE [st EXCEPT !.graph.node = (node_for_adding :> attr) @@ @]

\* Graph.add_node(node_for_adding, **attr)
add_node(st, node_for_adding, attr) ==
    LET g == st.graph
    IN  IF ~Hashable(node_for_adding) THEN Raise(st, "TypeError")
        ELSE IF node_for_adding \notin DOMAIN g.node
        THEN IF node_for_adding = None THEN Raise(st, "ValueError")
             ELSE [st EXCEPT !.graph.node = (node_for_adding :> attr) @@ @]
        ELSE [st EXCEPT !.graph.node[node_for_adding] = Update(@, attr)]

\* MultiDiGraph.new_edge_key(u, v)
RECURSIVE FreeKey(_, _)
FreeKey(keydict, key) ==
    IF Num(key) \in DOMAIN keydict THEN FreeKey(keydict, key + 1) ELSE key

new_edge_key(g, u, v) ==
    IF <<u, v>> \notin DOMAIN g.adj THEN Num(0)
    ELSE Num(FreeKey(g.adj[<<u, v>>], Cardinality(DOMAIN g.adj[<<u, v>>])))

\* DiGraph.add_edge(u_of_edge, v_of_edge, **attr), once both nodes exist
DiAddEdge(st, u, v, attr) ==
    IF <<u, v>> \in DOMAIN st.graph.adj
    THEN [st EXCEPT !.graph.adj[<<u, v>>] = Update(@, attr)]
    ELSE [st EXCEPT !.graph.adj = (<<u, v>> :> attr) @@ @]

\* MultiDiGraph.add_edge(u_for_edge, v_for_edge, key=None, **attr), once both
\* nodes exist: a keyword named "key" binds the key parameter, not attr.
MultiAddEdge(st, u, v, kwargs) ==
    LET g == st.graph
        keyArg == IF "key" \in DOMAIN kwargs THEN kwargs["key"] ELSE None
        attr == Pop(kwargs, {"key"})
        key == IF keyArg = None THEN new_edge_key(g, u, v) ELSE keyArg
    IN  IF ~Hashable(key) THEN Raise(st, "TypeError")
        ELSE IF <<u, v>> \in DOMAIN g.adj
        THEN IF key \in DOMAIN g.adj[<<u, v>>]
             THEN [st EXCEPT !.graph.adj[<<u, v>>][key] = Update(@, attr)]
             ELSE [st EXCEPT !.graph.adj[<<u, v>>] = (key :> attr) @@ @]
        ELSE [st EXCEPT !.graph.adj = (<<u, v>> :> (key :> attr)) @@ @]

\* add_edge whose multi-edge variant does not create the missing target node
add_edge_MultiNoTarget(st, u, v, kwargs) ==
    LET st1 == [st EXCEPT !.graph = TouchNode(@, u)]
    IN  IF st.graph.kind = "digraph"
        THEN DiAddEdge([st1 EXCEPT !.graph = TouchNode(@, v)], u, v, kwargs)
        ELSE MultiAddEdge(st1, u, v, kwargs)

\* graph.add_edge(u, v, **kwargs) on either graph class
add_edge(st, u, v, kwargs) ==
    IF ~Hashable(u) THEN Raise(st, "TypeError")
    ELSE IF u \notin DOMAIN st.graph.node /\ u = None THEN Raise(st, "ValueError")
    ELSE LET st1 == [st EXCEPT !.graph = TouchNode(@, u)]
         IN  IF ~Hashable(v) THEN Raise(st1, "TypeError")
             ELSE IF v \notin DOMAIN st1.graph.node /\ v = None THEN Raise(st1, "ValueError")
             ELSE LET st2 == [st1 EXCEPT !.graph = TouchNode(@, v)]
                  IN  IF st.graph.kind = "digraph" THEN DiAddEdge(st2, u, v, kwargs)
                      ELSE MultiAddEdge(st2, u, v, kwargs)

(***************************************************************************)
(* utils.py: the legacy embedding extractor.                               *)
(***************************************************************************)
Digits == <<"0", "1", "2", "3", "4", "5", "6", "7", "8", "9">>

\* str(i) for a natural number i
RECURSIVE NatText(_)
NatText(i) == IF i < 10 THEN Digits[i + 1] ELSE NatText(i \div 10) \o Digits[(i % 10) + 1]

\* The text of f"{v}" for a str, a natural number, a bool or None
Format(v) ==
    CASE Kind(v) = "str" -> v.str
      [] Kind(v) = "num" -> NatText(v.num)
      [] Kind(v) = "bool" -> IF v.bool THEN "True" ELSE "False"
      [] OTHER -> "None"

\* An embedded object that keeps the id of its parent
embedded_sco_ParentId(parent_id, key, obj) == Dict(Update(obj.dict, [id |-> parent_id]))

\* The standalone object built from the entry under key of the embedded mapping
embedded_sco(parent_id, key, obj) ==
    Dict(Update(obj.dict, [id |-> Str(Format(parent_id) \o "--embedded-" \o key)]))

\* An extractor that keeps the entries of an observable type only
extract_stix20_embedded_scos_Classified(observed_data) ==
    LET embedded == GetOr(observed_data, "objects", Dict(<<>>))
        parent_id == GetOr(observed_data, "id", Str("observed-data--unknown"))
    IN  IF ~isinstance_dict(embedded) THEN {}
        ELSE {embedded_sco(parent_id, key, embedded.dict[key]) :
                key \in {k \in DOMAIN embedded.dict :
                            /\ isinstance_dict(embedded.dict[k])
                            /\ is_sco(embedded.dict[k])}}

\* extract_stix20_embedded_scos(observed_data), as the set of the objects of the
\* returned list (their synthetic ids are pairwise distinct)
extract_stix20_embedded_scos(observed_data) ==
    LET embedded == GetOr(observed_data, "objects", Dict(<<>>))
        parent_id == GetOr(observed_data, "id", Str("observed-data--unknown"))
    IN  IF ~isinstance_dict(embedded) THEN {}
        ELSE {embedded_sco(parent_id, key, embedded.dict[key]) :
                key \in {k \in DOMAIN embedded.dict :
                            /\ isinstance_dict(embedded.dict[k])
                            /\ Truthy(GetOr(embedded.dict[k], "type", Str("")))}}

(***************************************************************************)
(* converter.py                                                            *)
(***************************************************************************)
\* _obj_to_attrs(obj): a new mapping with a copy of each list and dict value
obj_to_attrs(obj) ==
    [key \in DOMAIN obj.dict |->
        CASE isinstance_list(obj.dict[key]) -> List(obj.dict[key].list)
          [] isinstance_dict(obj.dict[key]) -> Dict(obj.dict[key].dict)
          [] OTHER -> obj.dict[key]]

\* _add_node that keeps the id as the node key only
AddNode_DropsId(st, obj) == add_node(st, obj.dict["id"], Pop(obj_to_attrs(obj), {"id"}))

\* _add_node(graph, obj)
AddNode(st, obj) == add_node(st, obj.dict["id"], obj_to_attrs(obj))

\* _add_node for each object of a set whose ids are hashable and distinct
RECURSIVE AddNodes(_, _)
AddNodes(st, objs) ==
    IF objs = {} \/ st.error # "none" THEN st
    ELSE LET o == CHOOSE x \in objs : TRUE
         IN  AddNodes(AddNode(st, o), objs \ {o})

\* _add_relationship that drops a relationship without a warning
AddRelationship_Silent(st, obj) ==
    LET source_ref == Get(obj, "source_ref")
        target_ref == Get(obj, "target_ref")
    IN  IF ~Truthy(source_ref) \/ ~Truthy(target_ref) THEN st
        ELSE add_edge(st, source_ref, target_ref,
                      Pop(obj_to_attrs(obj), {"source_ref", "target_ref", "type"}))

\* _add_relationship(graph, obj)
AddRelationship(st, obj) ==
    LET source_ref == Get(obj, "source_ref")
        target_ref == Get(obj, "target_ref")
    IN  IF ~Truthy(source_ref) \/ ~Truthy(target_ref) THEN Warn(st)
        ELSE add_edge(st, source_ref, target_ref,
                      Pop(obj_to_attrs(obj), {"source_ref", "target_ref", "type"}))

\* "for ref in refs": the items a for loop visits, when refs is iterable
IsIterable(v) == Kind(v) \in {"list", "str", "dict"}

\* The keys of a mapping as a sequence (the model keeps no insertion order)
RECURSIVE KeySeq(_)
KeySeq(keys) ==
    IF keys = {} THEN <<>>
    ELSE LET key == CHOOSE x \in keys : TRUE IN <<Str(key)>> \o KeySeq(keys \ {key})

IterItems(v) ==
    CASE Kind(v) = "list" -> v.list
      [] Kind(v) = "str" -> [i \in 1..Len(v.str) |-> Str(SubSeq(v.str, i, i))]
      [] Kind(v) = "dict" -> KeySeq(DOMAIN v.dict)

\* "for ref in refs: graph.add_edge(node_id, ref, relationship_type=tag)"
RECURSIVE AddRefEdges(_, _, _, _)
AddRefEdges(st, node_id, refs, tag) ==
    IF st.error # "none" \/ refs = <<>> THEN st
    ELSE AddRefEdges(add_edge(st, node_id, Head(refs), [relationship_type |-> Str(tag)]),
                     node_id, Tail(refs), tag)

SightingRefs(st, node_id, refs, tag) ==
    IF st.error # "none" THEN st
    ELSE IF ~IsIterable(refs) THEN Raise(st, "TypeError")
    ELSE AddRefEdges(st, node_id, IterItems(refs), tag)

\* _add_sighting without its last loop
AddSighting_NoObservedLoop(st, obj) ==
    LET node_id == obj.dict["id"]
        st1 == add_node(st, node_id, obj_to_attrs(obj))
        sighting_of == Get(obj, "sighting_of_ref")
        st2 == IF st1.error = "none" /\ Truthy(sighting_of)
               THEN add_edge(st1, node_id, sighting_of, [relationship_type |-> Str("sighting_of")])
               ELSE st1
    IN  SightingRefs(st2, node_id, GetOr(obj, "where_sighted_refs", List(<<>>)), "seen_by")

\* _add_sighting(graph, obj)
AddSighting(st, obj) ==
    LET node_id == obj.dict["id"]
        st1 == add_node(st, node_id, obj_to_attrs(obj))
        sighting_of == Get(obj, "sighting_of_ref")
        st2 == IF st1.error = "none" /\ Truthy(sighting_of)
               THEN add_edge(st1, node_id, sighting_of, [relationship_type |-> Str("sighting_of")])
               ELSE st1
        st3 == SightingRefs(st2, node_id, GetOr(obj, "where_sighted_refs", List(<<>>)), "seen_by")
    IN  SightingRefs(st3, node_id, GetOr(obj, "observed_data_refs", List(<<>>)), "observed")

\* The dispatch with the missing-id rule placed after the relationship and
\* sighting rules
ProcessObject_IdCheckLate(st, obj, scos) ==
    IF ~isinstance_dict(obj) THEN Warn(st)
    ELSE LET obj_type == Get(obj, "type")
             obj_id == Get(obj, "id")
         IN  IF ~Truthy(obj_type) THEN Warn(st)
             ELSE IF is_skippable_raises(obj) # "none" THEN Raise(st, is_skippable_raises(obj))
             ELSE IF is_skippable(obj) THEN st
             ELSE IF is_relationship(obj) THEN AddRelationship(st, obj)
             ELSE IF is_sighting(obj) /\ Truthy(obj_id) THEN AddSighting(st, obj)
             ELSE IF ~Truthy(obj_id) THEN Warn(st)
             ELSE IF is_sdo_raises(obj) # "none" THEN Raise(st, is_sdo_raises(obj))
             ELSE IF is_sco(obj) /\ ~scos THEN st
             ELSE AddNode(st, obj)

\* The dispatch with unknown types treated as observables
ProcessObject_UnknownAsSco(st, obj, scos) ==
    IF ~isinstance_dict(obj) THEN Warn(st)
    ELSE LET obj_type == Get(obj, "type")
             obj_id == Get(obj, "id")
         IN  IF ~Truthy(obj_type) THEN Warn(st)
             ELSE IF is_skippable_raises(obj) # "none" THEN Raise(st, is_skippable_raises(obj))
             ELSE IF ~Truthy(obj_id) THEN (IF is_skippable(obj) THEN st ELSE Warn(st))
             ELSE IF is_skippable(obj) THEN st
             ELSE IF is_relationship(obj) THEN AddRelationship(st, obj)
             ELSE IF is_sighting(obj) THEN AddSighting(st, obj)
             ELSE IF is_sdo_raises(obj) # "none" THEN Raise(st, is_sdo_raises(obj))
             ELSE IF is_sdo(obj)
             THEN LET st1 == AddNode(st, obj)
                  IN  IF st1.error = "none" /\ obj_type = Str("observed-data") /\ scos
                      THEN AddNodes(st1, extract_stix20_embedded_scos(obj))
                      ELSE st1
             ELSE IF scos THEN AddNode(st, obj) ELSE st

\* One iteration of the loop of convert_bundle: the dispatch of one object
ProcessObject(st, obj, scos) ==
    IF ~isinstance_dict(obj) THEN Warn(st)
    ELSE LET obj_type == Get(obj, "type")
             obj_id == Get(obj, "id")
         IN  IF ~Truthy(obj_type) THEN Warn(st)
             ELSE IF is_skippable_raises(obj) # "none" THEN Raise(st, is_skippable_raises(obj))
             ELSE IF ~Truthy(obj_id) THEN (IF is_skippable(obj) THEN st ELSE Warn(st))
             ELSE IF is_skippable(obj) THEN st
             ELSE IF is_relationship(obj) THEN AddRelationship(st, obj)
             ELSE IF is_sighting(obj) THEN AddSighting(st, obj)
             ELSE IF is_sdo_raises(obj) # "none" THEN Raise(st, is_sdo_raises(obj))
             ELSE IF is_sdo(obj)
             THEN LET st1 == AddNode(st, obj)
                  IN  IF st1.error = "none" /\ obj_type = Str("observed-data") /\ scos
                      THEN AddNodes(st1, extract_stix20_embedded_scos(obj))
                      ELSE st1
             ELSE IF is_sco(obj) THEN (IF scos THEN AddNode(st, obj) ELSE st)
             ELSE AddNode(st, obj)

\* "for obj in objects": an exception ends the loop
RECURSIVE ProcessObjects(_, _, _)
ProcessObjects(st, objects, scos) ==
    IF st.error # "none" \/ objects = <<>> THEN st
    ELSE ProcessObjects(ProcessObject(st, Head(objects), scos), Tail(objects), scos)

\* convert_bundle without the isinstance check of line 51
convert_bundle_NoListCheck(st, bundle, scos) ==
    IF ~isinstance_dict(bundle) THEN Raise(st, "AttributeError")
    ELSE LET objects == GetOr(bundle, "objects", List(<<>>))
         IN  IF ~IsIterable(objects) THEN Raise(st, "TypeError")
             ELSE ProcessObjects(st, IterItems(objects), scos)

\* convert_bundle(graph, bundle, include_scos); bundle.get raises on a bundle
\* that is not a dict
convert_bundle(st, bundle, scos) ==
    IF ~isinstance_dict(bundle) THEN Raise(st, "AttributeError")
    ELSE LET objects == GetOr(bundle, "objects", List(<<>>))
         IN  IF ~isinstance_list(objects) THEN Warn(st)
             ELSE ProcessObjects(st, objects.list, scos)

(***************************************************************************)
(* The caller's bundle after a convert_bundle call.  The helpers build     *)
(* new mappings and write to these: _obj_to_attrs returns a new dict, with *)
(* a copy of each list and dict value, and the extractor writes the        *)
(* synthetic id to dict(obj).  The operators below name, for each dict     *)
(* write of the code, the input object it could have reached, and what     *)
(* that object is after the write.                                         *)
(***************************************************************************)
\* A relationship object whose fields were popped from the object itself
RelationshipAfter_PopsInput(obj) == Dict(Pop(obj.dict, {"source_ref", "target_ref", "type"}))

\* The relationship object after _add_relationship: the three pops of lines
\* 113-115 are made on attrs, the mapping that _obj_to_attrs built
RelationshipAfter(obj) == obj

\* The embedded entry after the extractor: line 121 writes the id to sco, which
\* is dict(obj), a new mapping
EntryAfter(parent_id, key, entry) == entry

\* An object of the bundle after its iteration of the loop
ObjectAfter(obj, scos) ==
    IF ~isinstance_dict(obj) \/ ~Truthy(Get(obj, "type")) \/ ~Truthy(Get(obj, "id")) THEN obj
    ELSE IF is_relationship(obj)
    THEN (IF Truthy(Get(obj, "source_ref")) /\ Truthy(Get(obj, "target_ref"))
          THEN RelationshipAfter(obj) ELSE obj)
    ELSE IF Get(obj, "type") = Str("observed-data") /\ scos
            /\ isinstance_dict(GetOr(obj, "objects", None))
    THEN Dict([obj.dict EXCEPT !["objects"] =
                 Dict([key \in DOMAIN @.dict |->
                         IF isinstance_dict(@.dict[key]) /\ Truthy(GetOr(@.dict[key], "type", Str("")))
                         THEN EntryAfter(Get(obj, "id"), key, @.dict[key])
                         ELSE @.dict[key]])])
    ELSE obj

\* The bundle after convert_bundle(graph, bundle, include_scos)
bundle_after(bundle, scos) ==
    IF ~isinstance_dict(bundle) THEN bundle
    ELSE IF ~isinstance_list(GetOr(bundle, "objects", List(<<>>))) THEN bundle
    ELSE IF "objects" \notin DOMAIN bundle.dict THEN bundle
    ELSE Dict([bundle.dict EXCEPT !["objects"] =
                 List([i \in 1..Len(@.list) |-> ObjectAfter(@.list[i], scos)])])

(***************************************************************************)
(* parsers.py: the loader.  A parse result is the list of bundles, or the  *)
(* exception raised, with the number of warnings the loader logged.        *)
(***************************************************************************)
Parsed(bs) == [error |-> "none", bundles |-> bs, warnings |-> 0]

ParseError(e) == [error |-> e, bundles |-> <<>>, warnings |-> 0]

\* The JSON texts the model uses, and what json.loads returns on each; any
\* other text raises JSONDecodeError.
JsonTexts ==
    [t \in {"{}", "[]", "{\"objects\": []}"} |->
        CASE t = "{}" -> Dict(<<>>)
          [] t = "[]" -> List(<<>>)
          [] t = "{\"objects\": []}" -> Dict([objects |-> List(<<>>)])]

\* The file system of the model runs: what json.load returns on each regular
\* file (Invalid: JSONDecodeError), and the sorted *.json files of each
\* directory.  Any other path does not exist.
Invalid == [invalid |-> TRUE]

FileJson ==
    [f \in {"b.json", "bad.json", "list.json", "d/a.json", "d/b.json", "g/a.json", "g/b.json"} |->
        CASE f \in {"b.json", "d/a.json", "g/b.json"} ->
                Dict([objects |-> List(<<Dict([type |-> Str("tool"), id |-> Str("b")])>>)])
          [] f = "g/a.json" ->
                Dict([objects |-> List(<<Dict([type |-> Str("malware"), id |-> Str("a")])>>)])
          [] f = "list.json" -> List(<<>>)
          [] OTHER -> Invalid]

Dirs ==
    [d \in {"d", "g", "empty"} |->
        CASE d = "d" -> <<"d/a.json", "d/b.json">>
          [] d = "g" -> <<"g/a.json", "g/b.json">>
          [] OTHER -> <<>>]

\* s.endswith(p)
EndsWith(s, p) == Len(s) >= Len(p) /\ SubSeq(s, Len(s) - Len(p) + 1, Len(s)) = p

\* _parse_file(file_path)
parse_file(file_path) ==
    IF file_path \notin DOMAIN FileJson THEN ParseError("FileNotFoundError")
    ELSE IF FileJson[file_path] = Invalid THEN ParseError("ValueError")
    ELSE IF ~isinstance_dict(FileJson[file_path]) THEN ParseError("ValueError")
    ELSE Parsed(<<FileJson[file_path]>>)

\* The loop of _parse_directory over the sorted files
RECURSIVE ParseFiles(_, _)
ParseFiles(files, acc) ==
    IF files = <<>> THEN Parsed(acc)
    ELSE LET r == parse_file(Head(files))
         IN  IF r.error # "none" THEN r
             ELSE ParseFiles(Tail(files), acc \o r.bundles)

\* _parse_directory(dir_path)
parse_directory(dir_path) ==
    IF Dirs[dir_path] = <<>> THEN [Parsed(<<>>) EXCEPT !.warnings = 1]
    ELSE ParseFiles(Dirs[dir_path], <<>>)

\* _parse_string_source(source)
parse_string_source(src) ==
    IF src.str \in DOMAIN Dirs THEN parse_directory(src.str)
    ELSE IF EndsWith(src.str, ".json") \/ src.str \in DOMAIN FileJson THEN parse_file(src.str)
    ELSE ParseError("ValueError")

\* The loop of _parse_list_source over a list whose first element is a str
RECURSIVE ParseJsonStrings(_, _)
ParseJsonStrings(items, acc) ==
    IF items = <<>> THEN Parsed(acc)
    ELSE LET s == Head(items)
         IN  IF Kind(s) # "str" THEN ParseError("ValueError")
             ELSE IF s.str \notin DOMAIN JsonTexts THEN ParseError("ValueError")
             ELSE IF ~isinstance_dict(JsonTexts[s.str]) THEN ParseError("ValueError")
             ELSE ParseJsonStrings(Tail(items), Append(acc, JsonTexts[s.str]))

\* _parse_list_source(source)
parse_list_source(src) ==
    IF src.list = <<>> THEN Parsed(<<>>)
    ELSE LET first == src.list[1]
         IN  IF isinstance_dict(first) THEN Parsed(src.list)
             ELSE IF Kind(first) = "str" THEN ParseJsonStrings(src.list, <<>>)
             ELSE ParseError("ValueError")

\* parse_source(source)
parse_source(src) ==
    IF Kind(src) = "str" THEN parse_string_source(src)
    ELSE IF isinstance_list(src) THEN parse_list_source(src)
    ELSE ParseError("ValueError")

(***************************************************************************)
(* __init__.py: stix_to_graph, one action per statement.                   *)
(***************************************************************************)
GraphTypes == {"multidigraph", "digraph", "undirected"}

\* The sessions of a model run: every list of at most MaxBundles bundles whose
\* object lists are drawn from U and hold at most MaxObjs objects altogether,
\* a bundle being also any member of X.
Bundle(objects) == Dict([objects |-> List(objects)])

RECURSIVE BundleLists(_, _, _, _)
BundleLists(U, X, n, m) ==
    IF m = 0 THEN {<<>>}
    ELSE {<<Bundle(q)>> \o rest :
            <<q, rest>> \in UNION {[1..k -> U] \X BundleLists(U, X, n - k, m - 1) : k \in 0..n}}
         \cup {<<x>> \o rest : <<x, rest>> \in X \X BundleLists(U, X, n, m - 1)}

Sources(U, X) == {List(bl) : bl \in UNION {BundleLists(U, X, MaxObjs, m) : m \in 1..MaxBundles}}

\* Sources that parse_source rejects
BadSources == {Num(7), List(<<Num(1)>>), List(<<Str("{bad")>>), List(<<Str("[]")>>)}

InitWith(S, T) ==
    /\ pc = "call"
    /\ graph_type \in T
    /\ include_scos \in BOOLEAN
    /\ source \in S
    /\ bundles = <<>>
    /\ idx = 0
    /\ graph = EmptyGraph("none")
    /\ warnings = 0
    /\ error = "none"

\* stix_to_graph with a default branch instead of the ValueError
StixToGraph_NoValidation ==
    /\ pc = "call"
    /\ graph' = EmptyGraph(IF graph_type = "digraph" THEN "digraph" ELSE "multidigraph")
    /\ pc' = "parse"
    /\ UNCHANGED <<graph_type, include_scos, source, bundles, idx, warnings, error>>

\* stix_to_graph, lines 39-46: the graph class is chosen, or ValueError
StixToGraph ==
    /\ pc = "call"
    /\ IF graph_type \in {"multidigraph", "digraph"}
       THEN /\ graph' = EmptyGraph(graph_type)
            /\ pc' = "parse"
            /\ error' = error
       ELSE /\ error' = "ValueError"
            /\ pc' = "raised"
            /\ graph' = graph
    /\ UNCHANGED <<graph_type, include_scos, source, bundles, idx, warnings>>

\* stix_to_graph, line 48: bundles = parse_source(source)
ParseSource ==
    /\ pc = "parse"
    /\ LET r == parse_source(source)
       IN  /\ warnings' = warnings + r.warnings
           /\ IF r.error = "none"
              THEN /\ bundles' = r.bundles
                   /\ pc' = "convert"
                   /\ error' = error
              ELSE /\ error' = r.error
                   /\ pc' = "raised"
                   /\ bundles' = bundles
    /\ UNCHANGED <<graph_type, include_scos, source, idx, graph>>

\* stix_to_graph, lines 50-51: one iteration of "for bundle in bundles"
ConvertBundle ==
    /\ pc = "convert"
    /\ idx < Len(bundles)
    /\ LET st == convert_bundle([graph |-> graph, warnings |-> warnings, error |-> "none"],
                                bundles[idx + 1], include_scos)
       IN  /\ graph' = st.graph
           /\ warnings' = st.warnings
           /\ error' = st.error
           /\ pc' = IF st.error = "none" THEN "convert" ELSE "raised"
    /\ bundles' = [bundles EXCEPT ![idx + 1] = bundle_after(@, include_scos)]
    /\ idx' = idx + 1
    /\ UNCHANGED <<graph_type, include_scos, source>>

\* stix_to_graph, line 53: return graph
Return ==
    /\ pc = "convert"
    /\ idx = Len(bundles)
    /\ pc' = "returned"
    /\ UNCHANGED <<graph_type, include_scos, source, bundles, idx, graph, warnings, error>>

Next == StixToGraph \/ ParseSource \/ ConvertBundle \/ Return

\* The loop of lines 50-51 as a whole: the graph, warnings and outcome that
\* "for bundle in bundles: convert_bundle(graph, bundle, include_scos)" leaves
RECURSIVE ConvertBundles(_, _, _)
ConvertBundles(st, bs, scos) ==
    IF st.error # "none" \/ bs = <<>> THEN st
    ELSE ConvertBundles(convert_bundle(st, Head(bs), scos), Tail(bs), scos)

(***************************************************************************)
(* The objects of the model runs.                                          *)
(***************************************************************************)
\* Two versions of one domain object; the first has a field the second lacks
MalwareV1 ==
    Dict([type |-> Str("malware"), id |-> Str("a"), name |-> Str("v1"), is_family |-> Bool(TRUE)])

MalwareV2 == Dict([type |-> Str("malware"), id |-> Str("a"), name |-> Str("v2")])

\* Relationships over one ordered pair; the first has a field the second lacks
Rel1 ==
    Dict([type |-> Str("relationship"), id |-> Str("r1"), relationship_type |-> Str("uses"),
          source_ref |-> Str("a"), target_ref |-> Str("b"), created |-> Str("2023-01-01")])

Rel2 ==
    Dict([type |-> Str("relationship"), id |-> Str("r2"),
          relationship_type |-> Str("attributed-to"),
          source_ref |-> Str("a"), target_ref |-> Str("b")])

\* A relationship with a custom property named key
RelKey ==
    Dict([type |-> Str("relationship"), id |-> Str("r3"), relationship_type |-> Str("uses"),
          source_ref |-> Str("a"), target_ref |-> Str("b"), key |-> Str("k")])

Marking == Dict([type |-> Str("marking-definition"), id |-> Str("m")])

MarkingNoId == Dict([type |-> Str("marking-definition")])

LangContent == Dict([type |-> Str("language-content"), id |-> Str("a")])

CoreObjects == {MalwareV1, MalwareV2, Rel1, Rel2, RelKey, Marking, MarkingNoId, LangContent}

\* Sessions over domain objects, relationships and skippable objects
Init == InitWith(Sources(CoreObjects, {}) \cup BadSources, GraphTypes)

Spec == Init /\ [][Next]_vars

\* The same sessions in the default graph mode only
InitMulti == InitWith(Sources(CoreObjects, {}) \cup BadSources, {"multidigraph"})

SpecMulti == InitMulti /\ [][Next]_vars

\* Sightings: with every kind of reference, with one reference, with one target
\* referenced three times, with no reference, with an empty reference
SightFull ==
    Dict([type |-> Str("sighting"), id |-> Str("s"), sighting_of_ref |-> Str("b"),
          where_sighted_refs |-> List(<<Str("c")>>),
          observed_data_refs |-> List(<<Str("o")>>)])

SightMin == Dict([type |-> Str("sighting"), id |-> Str("s"), sighting_of_ref |-> Str("b")])

SightDup ==
    Dict([type |-> Str("sighting"), id |-> Str("s"), sighting_of_ref |-> Str("b"),
          where_sighted_refs |-> List(<<Str("b"), Str("b")>>)])

SightBare == Dict([type |-> Str("sighting"), id |-> Str("s")])

SightEmptyRef == Dict([type |-> Str("sighting"), id |-> Str("s"), sighting_of_ref |-> Str("")])

\* A relationship that leaves a sighting's node
RelFromSight ==
    Dict([type |-> Str("relationship"), id |-> Str("r1"), relationship_type |-> Str("uses"),
          source_ref |-> Str("s"), target_ref |-> Str("b")])

SightObjects == {SightFull, SightMin, SightDup, SightBare, SightEmptyRef, RelFromSight}

\* Sessions over sightings
InitSight == InitWith(Sources(SightObjects, {}), GraphTypes)

SpecSight == InitSight /\ [][Next]_vars

\* A legacy observation record with one embedded observable, an observable,
\* and an object of a type no classifier knows
Observed20 ==
    Dict([type |-> Str("observed-data"), id |-> Str("od"),
          objects |-> Dict([k \in {"0"} |->
                              Dict([type |-> Str("ipv4-addr"), value |-> Str("1.2.3.4")])])])

Ipv4 == Dict([type |-> Str("ipv4-addr"), id |-> Str("b"), value |-> Str("1.2.3.4")])

Custom == Dict([type |-> Str("x-custom"), id |-> Str("c")])

MixedObjects == {MalwareV1, MalwareV2, Rel1, SightMin, Observed20, Ipv4, Custom}

\* Sessions over objects of every class that produces nodes
InitMixed == InitWith(Sources(MixedObjects, {}), GraphTypes)

SpecMixed == InitMixed /\ [][Next]_vars

\* Malformed objects: not a mapping, without a type, with a number as type, with
\* a list as id, a sighting whose where_sighted_refs is null; and a sound one
NonDict == Str("x")

NoType == Dict([id |-> Str("a")])

TypeNum == Dict([type |-> Num(5), id |-> Str("a")])

IdList == Dict([type |-> Str("malware"), id |-> List(<<Str("a")>>)])

SightNullRefs == Dict([type |-> Str("sighting"), id |-> Str("s"), where_sighted_refs |-> None])

Tool == Dict([type |-> Str("tool"), id |-> Str("b")])

BadObjects == {NonDict, NoType, TypeNum, IdList, SightNullRefs, Tool}

\* Bundles without an objects field, and with one that is not a list
NoObjects == Dict([type |-> Str("bundle")])

ObjectsStr == Dict([objects |-> Str("x")])

ObjectsNull == Dict([objects |-> None])

BadBundles == {NoObjects, ObjectsStr, ObjectsNull}

\* Sessions over malformed objects and bundles
InitBad == InitWith(Sources(BadObjects, BadBundles), GraphTypes)

SpecBad == InitBad /\ [][Next]_vars

\* Legacy observation records.  A second version of Observed20 whose entry 0
\* lacks a field of the first, beside an entry without a type and an entry
\* that is not a mapping; a record whose embedded entry is a relationship; and
\* a domain object that has the id of the observable Ipv4; an observable
\* without an id
Observed20b ==
    Dict([type |-> Str("observed-data"), id |-> Str("od"),
          objects |-> Dict([k \in {"0", "1", "2"} |->
                              CASE k = "0" -> Dict([type |-> Str("domain-name")])
                                [] k = "1" -> Dict([value |-> Str("x")])
                                [] k = "2" -> Str("x")])])

ObservedRel ==
    Dict([type |-> Str("observed-data"), id |-> Str("p"),
          objects |-> Dict([k \in {"0"} |->
                              Dict([type |-> Str("relationship"), id |-> Str("r")])])])

ToolB == Dict([type |-> Str("tool"), id |-> Str("b"), name |-> Str("t")])

Ipv4NoId == Dict([type |-> Str("ipv4-addr"), value |-> Str("5.6.7.8")])

ObsObjects == {Observed20, Observed20b, ObservedRel, Ipv4, Ipv4NoId, ToolB, MalwareV1, Rel1}

\* Sessions over observables, legacy records and domain objects
InitObs == InitWith(Sources(ObsObjects, {}), GraphTypes)

SpecObs == InitObs /\ [][Next]_vars

\* Objects that the dispatch drops: a relationship without a target, and a
\* relationship, a sighting and a domain object without an id
RelNoTarget ==
    Dict([type |-> Str("relationship"), id |-> Str("r1"), relationship_type |-> Str("uses"),
          source_ref |-> Str("a")])

RelNoId ==
    Dict([type |-> Str("relationship"), relationship_type |-> Str("uses"),
          source_ref |-> Str("a"), target_ref |-> Str("b")])

SightNoId ==
    Dict([type |-> Str("sighting"), sighting_of_ref |-> Str("b"),
          where_sighted_refs |-> List(<<Str("c")>>)])

ToolNoId == Dict([type |-> Str("tool"), id |-> Str(""), name |-> Str("t")])

WarnObjects ==
    {NonDict, NoType, TypeNum, Marking, MarkingNoId, RelNoTarget, RelNoId, SightNoId, ToolNoId,
     Ipv4, Custom}

\* Sessions over objects that are dropped, with and without a warning
InitWarn == InitWith(Sources(WarnObjects, {}), GraphTypes)

SpecWarn == InitWarn /\ [][Next]_vars

\* Relationships whose endpoint references are not identifiers: an empty
\* source, a null target, a number as source, a list as target
RelEmptySource ==
    Dict([type |-> Str("relationship"), id |-> Str("r2"), source_ref |-> Str(""),
          target_ref |-> Str("b")])

RelNullTarget ==
    Dict([type |-> Str("relationship"), id |-> Str("r3"), source_ref |-> Str("a"),
          target_ref |-> None])

RelNumSource ==
    Dict([type |-> Str("relationship"), id |-> Str("r4"), source_ref |-> Num(5),
          target_ref |-> Str("b")])

RelListTarget ==
    Dict([type |-> Str("relationship"), id |-> Str("r5"), source_ref |-> Str("a"),
          target_ref |-> List(<<Str("b")>>)])

RefObjects ==
    {RelNoTarget, RelEmptySource, RelNullTarget, RelNumSource, RelListTarget, Rel1, MalwareV1}

\* Sessions over relationships with sound and unsound endpoint references
InitRefs == InitWith(Sources(RefObjects, {}), GraphTypes)

SpecRefs == InitRefs /\ [][Next]_vars

\* One object per type string: every type the classifier knows, and strings
\* it does not know (a custom type, the bare custom prefix and a cut one, a
\* known type in capitals, the type of a bundle).  Each object has an id and
\* the reference fields of a relationship and of a sighting.
MaxTyped == 1      \* objects in one session over typed objects

TypeStrings ==
    SDO_TYPES \cup SCO_TYPES \cup SKIP_TYPES
    \cup {"relationship", "sighting", "x-mitre-tactic", "x-mitre-", "x-mitr", "x-custom",
          "Malware", "bundle"}

Typed(t) ==
    Dict([type |-> Str(t), id |-> Str("n"), source_ref |-> Str("a"), target_ref |-> Str("b"),
          sighting_of_ref |-> Str("c")])

TypedObjects == {Typed(t) : t \in TypeStrings}

TypedSources ==
    {List(<<Bundle(q)>>) : q \in UNION {[1..k -> TypedObjects] : k \in 1..MaxTyped}}

\* Sessions of one bundle over the typed objects
InitTyped == InitWith(TypedSources, GraphTypes)

SpecTyped == InitTyped /\ [][Next]_vars

\* Sources of every form: paths of files and directories, existing or not,
\* a source that is not a str or list, lists of JSON texts, and lists of
\* bundle dicts that may hold an element of another kind
PathSources ==
    {Str(p) : p \in {"b.json", "missing.json", "bad.json", "list.json", "d", "g", "empty",
                     "nodir"}}

LoadSources == PathSources \cup BadSources \cup Sources({Tool, TypeNum}, {Num(5), Str("{}")})

InitLoad == InitWith(LoadSources, GraphTypes)

SpecLoad == InitLoad /\ [][Next]_vars

\* Objects that refer to each other: two domain objects, an observable with
\* the id of the second, a relationship between them, a sighting of the
\* second, and a relationship from the sighting to the second
OrderObjects == {MalwareV1, ToolB, Ipv4, Rel1, SightMin, RelFromSight}

\* Sessions over objects and the relationships that refer to them
InitOrder == InitWith(Sources(OrderObjects, {}), GraphTypes)

SpecOrder == InitOrder /\ [][Next]_vars

\* Legacy records whose entries are of types that are not observables: a
\* skippable type and a sighting with a reference; and a record whose
\* objects field is a list
ObservedSkip ==
    Dict([type |-> Str("observed-data"), id |-> Str("q"),
          objects |-> Dict([k \in {"0", "1"} |->
                              IF k = "0" THEN Dict([type |-> Str("marking-definition")])
                              ELSE Dict([type |-> Str("sighting"),
                                         sighting_of_ref |-> Str("b")])])])

ObservedList ==
    Dict([type |-> Str("observed-data"), id |-> Str("l"),
          objects |-> List(<<Dict([type |-> Str("ipv4-addr")])>>)])

LegacyObjects == {Observed20, Observed20b, ObservedRel, ObservedSkip, ObservedList}

\* Sessions over legacy observation records
InitLegacy == InitWith(Sources(LegacyObjects, {}), GraphTypes)

SpecLegacy == InitLegacy /\ [][Next]_vars

(***************************************************************************)
(* Vocabulary of the properties.                                           *)
(***************************************************************************)
\* The object list convert_bundle iterates over for bundle b
Objects(b) ==
    IF isinstance_dict(b) /\ isinstance_list(GetOr(b, "objects", List(<<>>)))
    THEN GetOr(b, "objects", List(<<>>)).list
    ELSE <<>>

\* The objects of the bundles converted so far, in processing order
RECURSIVE ObjectsUpTo(_)
ObjectsUpTo(i) == IF i = 0 THEN <<>> ELSE ObjectsUpTo(i - 1) \o Objects(bundles[i])

Processed == ObjectsUpTo(idx)

\* The bundle the last ConvertBundle step converted
LastBundle == bundles[idx]

\* o is dispatched to a node insertion keyed by its id
NodeProducing(o) ==
    /\ isinstance_dict(o)
    /\ Truthy(Get(o, "type")) /\ Truthy(Get(o, "id"))
    /\ Kind(Get(o, "type")) = "str"
    /\ ~is_skippable(o) /\ ~is_relationship(o)
    /\ is_sco(o) => include_scos

\* objs[j] is the one object of the list objs that produces a node with its id
OnlyVersionIn(objs, j) ==
    /\ NodeProducing(objs[j])
    /\ \A j2 \in (1..Len(objs)) \ {j} :
         ~(NodeProducing(objs[j2]) /\ Get(objs[j2], "id") = Get(objs[j], "id"))

\* The attribute mappings of the edges from u to v
EdgeAttrs(g, u, v) ==
    IF <<u, v>> \notin DOMAIN g.adj THEN {}
    ELSE IF g.kind = "digraph" THEN {g.adj[<<u, v>>]}
    ELSE {g.adj[<<u, v>>][key] : key \in DOMAIN g.adj[<<u, v>>]}

\* The number of edges from u to v
EdgeCount(g, u, v) ==
    IF <<u, v>> \notin DOMAIN g.adj THEN 0
    ELSE IF g.kind = "digraph" THEN 1
    ELSE Cardinality(DOMAIN g.adj[<<u, v>>])

\* o is a relationship object with an id and populated endpoint references
EdgeProducing(o) ==
    /\ isinstance_dict(o)
    /\ is_relationship(o)
    /\ Truthy(Get(o, "id"))
    /\ Truthy(Get(o, "source_ref")) /\ Truthy(Get(o, "target_ref"))

\* The fields of a relationship that its edge is to carry
StrippedFields == {"source_ref", "target_ref", "type"}

RelAttrs(o) == [f \in DOMAIN o.dict \ StrippedFields |-> o.dict[f]]

\* The positions in Processed of the relationships that connect u to v
RelsOver(u, v) ==
    {i \in 1..Len(Processed) :
        /\ EdgeProducing(Processed[i])
        /\ Get(Processed[i], "source_ref") = u
        /\ Get(Processed[i], "target_ref") = v}

\* The ordered pairs the processed relationships connect
RelPairs ==
    {<<Get(Processed[i], "source_ref"), Get(Processed[i], "target_ref")>> :
        i \in {j \in 1..Len(Processed) : EdgeProducing(Processed[j])}}

Max(S) == CHOOSE x \in S : \A y \in S : y <= x

\* The ordered pairs that leave node u, and the number of edges over them
OutPairs(g, u) == {p \in DOMAIN g.adj : p[1] = u}

RECURSIVE CountOver(_, _)
CountOver(g, pairs) ==
    IF pairs = {} THEN 0
    ELSE LET p == CHOOSE x \in pairs : TRUE
         IN  EdgeCount(g, p[1], p[2]) + CountOver(g, pairs \ {p})

OutCount(g, u) == CountOver(g, OutPairs(g, u))

\* o is a sighting object with an id
SightingWithId(o) == isinstance_dict(o) /\ is_sighting(o) /\ Truthy(Get(o, "id"))

\* The references of sighting o that the tag stands for, in their order
SightingTags == {"sighting_of", "seen_by", "observed"}

RefsOf(o, tag) ==
    CASE tag = "sighting_of" ->
            IF Truthy(Get(o, "sighting_of_ref")) THEN <<Get(o, "sighting_of_ref")>> ELSE <<>>
      [] tag = "seen_by" -> GetOr(o, "where_sighted_refs", List(<<>>)).list
      [] tag = "observed" -> GetOr(o, "observed_data_refs", List(<<>>)).list

RefCount(o, v, tag) == Cardinality({i \in 1..Len(RefsOf(o, tag)) : RefsOf(o, tag)[i] = v})

RefTotal(o) ==
    Len(RefsOf(o, "sighting_of")) + Len(RefsOf(o, "seen_by")) + Len(RefsOf(o, "observed"))

RefTargets(o) == {v \in DOMAIN graph.node : \E tag \in SightingTags : RefCount(o, v, tag) > 0}

\* The tag of the last reference of sighting o to v
LastTag(o, v) ==
    IF RefCount(o, v, "observed") > 0 THEN "observed"
    ELSE IF RefCount(o, v, "seen_by") > 0 THEN "seen_by"
    ELSE "sighting_of"

\* The number of edges from u to v that carry the tag and nothing else
TaggedCount(g, u, v, tag) ==
    Cardinality({e \in EdgeAttrs(g, u, v) : e = [relationship_type |-> Str(tag)]})

\* The number of parallel edges from u to v that carry the tag and nothing else
TaggedEdges(g, u, v, tag) ==
    IF <<u, v>> \notin DOMAIN g.adj \/ g.kind = "digraph" THEN TaggedCount(g, u, v, tag)
    ELSE Cardinality({key \in DOMAIN g.adj[<<u, v>>] :
                        g.adj[<<u, v>>][key] = [relationship_type |-> Str(tag)]})

\* o is an object of one of the two administrative types
SkippableObject(o) ==
    isinstance_dict(o)
    /\ Get(o, "type") \in {Str("marking-definition"), Str("language-content")}

\* The objects of a list that are not of an administrative type
RECURSIVE WithoutSkippable(_)
WithoutSkippable(objs) ==
    IF objs = <<>> THEN <<>>
    ELSE IF SkippableObject(Head(objs)) THEN WithoutSkippable(Tail(objs))
    ELSE <<Head(objs)>> \o WithoutSkippable(Tail(objs))

\* A ConvertBundle step is being taken, on the bundle bundles[idx + 1]
ConvertStep == pc = "convert" /\ idx < Len(bundles) /\ idx' = idx + 1

\* convert_bundle has just returned from the bundle LastBundle
Converted == pc \in {"convert", "returned"} /\ idx > 0 /\ error = "none"

\* A session that ran to its end without raising
Completed == pc = "returned" /\ error = "none"

(***************************************************************************)
(* C1.  Merge law for nodes: when two bundles A and B are ingested in that *)
(* order and both hold a node-producing object with id X, node X carries   *)
(* exactly the fields of B's version afterwards (complete replacement).    *)
(***************************************************************************)
C1_MergeReplacesNode ==
    (Completed /\ Len(bundles) = 2) =>
        \A i \in 1..Len(Objects(bundles[1])), j \in 1..Len(Objects(bundles[2])) :
            LET oa == Objects(bundles[1])[i]
                ob == Objects(bundles[2])[j]
            IN  (/\ NodeProducing(oa)
                 /\ OnlyVersionIn(Objects(bundles[2]), j)
                 /\ Get(oa, "id") = Get(ob, "id"))
                => /\ Get(ob, "id") \in DOMAIN graph.node
                   /\ graph.node[Get(ob, "id")] = obj_to_attrs(ob)

(***************************************************************************)
(* C2.  After convert_bundle, every relationship object of the bundle that *)
(* has an id and populated source_ref and target_ref has an edge from its  *)
(* source to its target that carries every field of the object with its    *)
(* original value, except source_ref, target_ref and type, which the edge  *)
(* does not carry.                                                         *)
(***************************************************************************)
C2_EdgeCarriesAllFields ==
    Converted =>
        \A i \in 1..Len(Objects(LastBundle)) :
            LET o == Objects(LastBundle)[i]
            IN  EdgeProducing(o) =>
                    \E e \in EdgeAttrs(graph, Get(o, "source_ref"), Get(o, "target_ref")) :
                        /\ \A f \in DOMAIN RelAttrs(o) : f \in DOMAIN e /\ e[f] = RelAttrs(o)[f]
                        /\ DOMAIN e \cap StrippedFields = {}

(***************************************************************************)
(* C4.  In multi-edge mode, the N relationship objects processed so far    *)
(* that share an ordered pair have produced N parallel edges over that     *)
(* pair, one per relationship, each with exactly the attributes of its own *)
(* relationship.                                                           *)
(***************************************************************************)
C4_MultiKeepsEveryEdge ==
    (Converted /\ graph.kind = "multidigraph") =>
        \A p \in RelPairs :
            /\ EdgeCount(graph, p[1], p[2]) = Cardinality(RelsOver(p[1], p[2]))
            /\ \A i \in RelsOver(p[1], p[2]) :
                 RelAttrs(Processed[i]) \in EdgeAttrs(graph, p[1], p[2])

(***************************************************************************)
(* C5.  In simple mode there is at most one edge per ordered pair, and its *)
(* attributes are exactly those of the last relationship processed for the *)
(* pair: no field of an earlier relationship survives.                     *)
(***************************************************************************)
C5_SimpleLastEdgeReplaces ==
    (Converted /\ graph.kind = "digraph") =>
        \A p \in RelPairs :
            /\ EdgeCount(graph, p[1], p[2]) = 1
            /\ graph.adj[p] = RelAttrs(Processed[Max(RelsOver(p[1], p[2]))])

(***************************************************************************)
(* C3.  After a sighting object with an id is processed, the number of     *)
(* edges that leave its node is (1 if it has a sighting_of_ref, else 0)    *)
(* plus the lengths of where_sighted_refs and of observed_data_refs, in    *)
(* either graph mode.                                                      *)
(***************************************************************************)
C3_SightingEdgeCount ==
    (Converted /\ Len(Objects(LastBundle)) > 0) =>
        LET o == Objects(LastBundle)[Len(Objects(LastBundle))]
        IN  SightingWithId(o) => OutCount(graph, Get(o, "id")) = RefTotal(o)

(***************************************************************************)
(* C3, as amended.  A convert_bundle call on a bundle that holds one       *)
(* sighting with an id adds, in multi-edge mode, exactly one edge from the *)
(* sighting's node per reference, tagged by the kind of the reference, so  *)
(* that the number of edges leaving the node grows by the number of        *)
(* references; in simple mode it connects the node to each referenced      *)
(* target by one edge that carries the tag of the last reference to it.    *)
(* Edges that left the node before are kept.                               *)
(***************************************************************************)
SightingStep(o) ==
    /\ pc = "convert" /\ idx < Len(bundles) /\ idx' = idx + 1
    /\ Objects(bundles[idx + 1]) = <<o>>
    /\ SightingWithId(o)

C3_SightingAddsEdges ==
    [][\A o \in SightObjects :
        SightingStep(o) =>
            LET s == Get(o, "id")
            IN  /\ error' = "none"
                /\ graph.kind = "multidigraph" =>
                      /\ OutCount(graph', s) = OutCount(graph, s) + RefTotal(o)
                      /\ \A v \in DOMAIN graph'.node, tag \in SightingTags :
                           TaggedEdges(graph', s, v, tag)
                             = TaggedEdges(graph, s, v, tag) + RefCount(o, v, tag)
                /\ graph.kind = "digraph" =>
                      /\ OutPairs(graph', s)
                           = OutPairs(graph, s) \cup {<<s, v>> : v \in RefTargets(o)'}
                      /\ \A v \in RefTargets(o)' :
                           graph'.adj[<<s, v>>]["relationship_type"] = Str(LastTag(o, v))]_vars

\* A sighting with three references to one target was processed on a graph in
\* which an edge already left its node
C3_Witness ==
    /\ Converted /\ idx = 2
    /\ Objects(bundles[1]) = <<RelFromSight>>
    /\ Objects(bundles[2]) = <<SightDup>>
    /\ OutCount(graph, Str("s")) = IF graph.kind = "digraph" THEN 1 ELSE 4

(***************************************************************************)
(* C6.  Node identity: every node of the graph has an id attribute, and it *)
(* equals the node's key.                                                  *)
(***************************************************************************)
C6_NodeIdEqualsKey ==
    \A n \in DOMAIN graph.node :
        "id" \in DOMAIN graph.node[n] /\ graph.node[n]["id"] = n

(***************************************************************************)
(* C6, as amended.  Every node of the graph either is a bare endpoint stub *)
(* (it has no attribute at all) or has an id attribute equal to its key.   *)
(***************************************************************************)
C6_NodeIdEqualsKeyOrStub ==
    \A n \in DOMAIN graph.node :
        \/ graph.node[n] = EmptyAttrs
        \/ "id" \in DOMAIN graph.node[n] /\ graph.node[n]["id"] = n

\* A node that two versions of an object were merged into, beside a stub and a
\* node from an embedded observable
C6_Witness ==
    /\ Completed
    /\ \E n \in DOMAIN graph.node : graph.node[n] = EmptyAttrs
    /\ \E n \in DOMAIN graph.node : DOMAIN graph.node[n] = {"id", "type", "name", "is_family"}
                                      /\ graph.node[n]["name"] = Str("v2")

(***************************************************************************)
(* C7.  Objects of type marking-definition or language-content, with or    *)
(* without an id, produce no node, no edge and no warning, and the other   *)
(* objects of their bundle are processed as if they were not there: each   *)
(* convert_bundle call leaves the graph, the warning count and the outcome *)
(* that the same call on the bundle without these objects leaves, and a    *)
(* bundle of such objects alone changes nothing.                           *)
(***************************************************************************)
C7_SkippableIgnored ==
    [][ConvertStep =>
        LET objs == Objects(bundles[idx + 1])
            rest == convert_bundle([graph |-> graph, warnings |-> warnings, error |-> "none"],
                                   Bundle(WithoutSkippable(objs)), include_scos)
        IN  /\ graph' = rest.graph
            /\ warnings' = rest.warnings
            /\ error' = rest.error
            /\ WithoutSkippable(objs) = <<>> =>
                  graph' = graph /\ warnings' = warnings /\ error' = "none"]_vars

\* A bundle with a skippable object without an id, one with an id and a domain
\* object was converted: the domain object alone is in the graph, unwarned
C7_Witness ==
    /\ Converted
    /\ Objects(LastBundle) = <<MarkingNoId, LangContent, MalwareV1>>
    /\ DOMAIN graph.node = {Str("a")}
    /\ graph.node[Str("a")] = MalwareV1.dict
    /\ graph.adj = <<>>
    /\ warnings = 0

(***************************************************************************)
(* C8.  Per-object dispatch is never fatal: whatever values the objects of *)
(* a bundle and their fields hold, convert_bundle does not raise; a        *)
(* session is ended by an exception only before its first convert_bundle   *)
(* call.                                                                   *)
(***************************************************************************)
C8_DispatchNeverRaises == pc = "raised" => idx = 0

(***************************************************************************)
(* C9.  With a graph_type other than multidigraph and digraph, the session *)
(* ends at once in a ValueError: the source is never parsed, no bundle is  *)
(* converted, no graph is built and nothing is warned, whether the source  *)
(* is valid or not.                                                        *)
(***************************************************************************)
C9_BadGraphTypeRaisesFirst ==
    graph_type \notin {"multidigraph", "digraph"} =>
        /\ pc \in {"call", "raised"}
        /\ pc = "raised" => error = "ValueError"
        /\ pc = "call" => error = "none"
        /\ bundles = <<>> /\ idx = 0 /\ warnings = 0
        /\ graph = EmptyGraph("none")

\* The session of an unknown graph_type has ended, on a source the loader
\* would have rejected and on a source with bundles to convert
C9_Witness ==
    /\ graph_type = "undirected" /\ pc = "raised" /\ error = "ValueError"
    /\ \/ parse_source(source).error = "ValueError"
       \/ /\ parse_source(source).error = "none"
          /\ Len(parse_source(source).bundles) = 2

(***************************************************************************)
(* C10.  A bundle whose objects field is absent or is not a list is        *)
(* skipped as a whole: the graph is unchanged, one warning is emitted,     *)
(* nothing is raised and the session goes on to the next bundle.           *)
(***************************************************************************)
ObjectsAbsent(b) == isinstance_dict(b) /\ "objects" \notin DOMAIN b.dict

ObjectsNotList(b) ==
    isinstance_dict(b) /\ "objects" \in DOMAIN b.dict /\ ~isinstance_list(b.dict["objects"])

C10_BadObjectsFieldWarns ==
    [][(ConvertStep /\ (ObjectsAbsent(bundles[idx + 1]) \/ ObjectsNotList(bundles[idx + 1])))
        => /\ graph' = graph
           /\ warnings' = warnings + 1
           /\ error' = "none" /\ pc' = "convert"]_vars

(***************************************************************************)
(* C10, as amended.  A bundle whose objects field is present and is not a  *)
(* list is skipped with one warning; a bundle without an objects field is  *)
(* skipped silently, as a bundle with no objects.  In both cases the graph *)
(* is unchanged, nothing is raised and the session goes on to the next     *)
(* bundle.                                                                 *)
(***************************************************************************)
C10_BadObjectsFieldSkipped ==
    [][(ConvertStep /\ (ObjectsAbsent(bundles[idx + 1]) \/ ObjectsNotList(bundles[idx + 1])))
        => /\ graph' = graph
           /\ warnings' = warnings + (IF ObjectsNotList(bundles[idx + 1]) THEN 1 ELSE 0)
           /\ error' = "none" /\ pc' = "convert"]_vars

\* A bundle with a null objects field was skipped with a warning, and the
\* bundle after it, which has no objects field, was converted silently
C10_Witness ==
    /\ Completed /\ idx = 2
    /\ bundles = <<ObjectsNull, NoObjects>>
    /\ warnings = 1
    /\ graph = EmptyGraph(graph_type)

(***************************************************************************)
(* C11.  Legacy extraction: with observables included, every entry K of    *)
(* the objects mapping of an observed-data object with id P that is a      *)
(* mapping with a non-empty type has a node keyed P--embedded-K, and the   *)
(* attributes of that node are the fields of the entry with id set to the  *)
(* node's key.  Stated of the last version processed of each record.       *)
(***************************************************************************)
\* o is an observed-data object with an id and a mapping of embedded entries
LegacyRecord(o) ==
    /\ isinstance_dict(o)
    /\ Get(o, "type") = Str("observed-data")
    /\ Kind(Get(o, "id")) = "str" /\ Truthy(Get(o, "id"))
    /\ isinstance_dict(GetOr(o, "objects", None))

\* The keys of the entries of record o that are mappings with a non-empty type
TypedEntries(o) ==
    {K \in DOMAIN o.dict["objects"].dict :
        /\ isinstance_dict(o.dict["objects"].dict[K])
        /\ Truthy(Get(o.dict["objects"].dict[K], "type"))}

SyntheticKey(o, K) == Str(o.dict["id"].str \o "--embedded-" \o K)

\* Processed[i] is the last object processed that has the id of Processed[i]
LastWithId(i) ==
    \A j \in (i + 1)..Len(Processed) :
        ~(isinstance_dict(Processed[j]) /\ Get(Processed[j], "id") = Get(Processed[i], "id"))

C11_EmbeddedNodes ==
    (Completed /\ include_scos) =>
        \A i \in 1..Len(Processed) :
            (LegacyRecord(Processed[i]) /\ LastWithId(i)) =>
                \A K \in TypedEntries(Processed[i]) :
                    LET n == SyntheticKey(Processed[i], K)
                        entry == Processed[i].dict["objects"].dict[K].dict
                    IN  /\ n \in DOMAIN graph.node
                        /\ graph.node[n] = [f \in DOMAIN entry \cup {"id"} |->
                                              IF f = "id" THEN n ELSE entry[f]]

(***************************************************************************)
(* C12.  With observables excluded, no node is keyed P--embedded-K for an  *)
(* observed-data parent P, and the node keyed by the id of an observable   *)
(* object either does not exist or carries none of the attributes of that  *)
(* object; the excluded observables are not warned about (the warnings are *)
(* those of the objects without an id).                                    *)
(***************************************************************************)
\* o is an object of an observable type with an id: the is_sco branch takes it
ObservableObject(o) ==
    /\ isinstance_dict(o)
    /\ Kind(Get(o, "type")) = "str" /\ Get(o, "type").str \in SCO_TYPES
    /\ Truthy(Get(o, "id"))

LacksId(o) == isinstance_dict(o) /\ Truthy(Get(o, "type")) /\ ~Truthy(Get(o, "id"))

C12_NoObservableNodes ==
    (Converted /\ ~include_scos) =>
        /\ \A i \in 1..Len(Processed) :
             LET o == Processed[i]
             IN  /\ LegacyRecord(o) =>
                       \A K \in DOMAIN o.dict["objects"].dict :
                           SyntheticKey(o, K) \notin DOMAIN graph.node
                 /\ ObservableObject(o) =>
                       \/ Get(o, "id") \notin DOMAIN graph.node
                       \/ \A f \in DOMAIN o.dict :
                            \/ f \notin DOMAIN graph.node[Get(o, "id")]
                            \/ graph.node[Get(o, "id")][f] # o.dict[f]
        /\ warnings = Cardinality({i \in 1..Len(Processed) : LacksId(Processed[i])})

(***************************************************************************)
(* C12, as amended.  With observables excluded, observable objects and     *)
(* embedded entries are ignored: each convert_bundle call leaves the       *)
(* graph, the warning count and the outcome that the same call on the      *)
(* bundle without its observable objects leaves.  Every node is then named *)
(* by another object: its key is the id of a processed object that is not  *)
(* an observable, or an endpoint of a relationship or a reference of a     *)
(* sighting; and a node whose key is not the id of such an object is a     *)
(* bare stub.  A node keyed by a synthetic key or by an observable's id    *)
(* can so exist with attributes only when a non-observable object has      *)
(* that very id.                                                           *)
(***************************************************************************)
RECURSIVE WithoutObservables(_)
WithoutObservables(objs) ==
    IF objs = <<>> THEN <<>>
    ELSE IF ObservableObject(Head(objs)) THEN WithoutObservables(Tail(objs))
    ELSE <<Head(objs)>> \o WithoutObservables(Tail(objs))

\* o gets a node of its own when observables are excluded
OwnNode(o) ==
    /\ isinstance_dict(o)
    /\ Truthy(Get(o, "type")) /\ Truthy(Get(o, "id"))
    /\ Kind(Get(o, "type")) = "str"
    /\ Get(o, "type").str \notin SKIP_TYPES \cup SCO_TYPES \cup {"relationship"}

\* The keys that the relationships and sightings processed so far refer to
ReferredKeys ==
    UNION {IF EdgeProducing(Processed[i])
           THEN {Get(Processed[i], "source_ref"), Get(Processed[i], "target_ref")}
           ELSE IF SightingWithId(Processed[i])
           THEN {RefsOf(Processed[i], tag)[j] :
                    <<tag, j>> \in {x \in SightingTags \X (1..MaxObjs) :
                                       x[2] <= Len(RefsOf(Processed[i], x[1]))}}
           ELSE {} : i \in 1..Len(Processed)}

OwnKeys == {Get(Processed[i], "id") : i \in {j \in 1..Len(Processed) : OwnNode(Processed[j])}}

C12_ObservablesIgnored ==
    /\ [][(ConvertStep /\ ~include_scos) =>
            LET rest == convert_bundle(
                            [graph |-> graph, warnings |-> warnings, error |-> "none"],
                            Bundle(WithoutObservables(Objects(bundles[idx + 1]))), FALSE)
            IN  graph' = rest.graph /\ warnings' = rest.warnings /\ error' = rest.error]_vars
    /\ []((Converted /\ ~include_scos) =>
            /\ DOMAIN graph.node \subseteq OwnKeys \cup ReferredKeys
            /\ \A n \in DOMAIN graph.node \ OwnKeys : graph.node[n] = EmptyAttrs)

\* A legacy record, an observable and a relationship that points at the
\* observable were converted with observables excluded: the record has its
\* node, the endpoints of the relationship are stubs, nothing is warned
C12_Witness ==
    /\ Completed /\ ~include_scos
    /\ Processed = <<Observed20, Ipv4, Rel1>>
    /\ DOMAIN graph.node = {Str("od"), Str("a"), Str("b")}
    /\ graph.node[Str("b")] = EmptyAttrs
    /\ warnings = 0

(***************************************************************************)
(* C13.  For any source, the node set of the session with observables      *)
(* excluded is a subset of the node set of the session with observables    *)
(* included, and every domain object's node is in both graphs with the     *)
(* same attributes.                                                        *)
(***************************************************************************)
\* The outcome of the session on the same bundles with the other arguments
OtherSession(kind, scos) ==
    ConvertBundles([graph |-> EmptyGraph(kind), warnings |-> 0, error |-> "none"], bundles, scos)

\* o is a domain object with an id
DomainObject(o) ==
    /\ isinstance_dict(o)
    /\ Kind(Get(o, "type")) = "str" /\ Kind(Get(o, "id")) = "str" /\ Truthy(Get(o, "id"))
    /\ \/ Get(o, "type").str \in SDO_TYPES
       \/ StartsWith(Get(o, "type").str, "x-mitre-")

C13_ExcludedIsSubgraph ==
    (Completed /\ include_scos /\ OtherSession(graph.kind, FALSE).error = "none") =>
        LET without == OtherSession(graph.kind, FALSE).graph
        IN  /\ DOMAIN without.node \subseteq DOMAIN graph.node
            /\ \A i \in 1..Len(Processed) :
                 DomainObject(Processed[i]) =>
                     /\ Get(Processed[i], "id") \in DOMAIN without.node
                     /\ Get(Processed[i], "id") \in DOMAIN graph.node
                     /\ graph.node[Get(Processed[i], "id")]
                          = without.node[Get(Processed[i], "id")]

(***************************************************************************)
(* C13, as amended.  The graph of the session with observables excluded is *)
(* contained in the graph of the session with observables included: its    *)
(* node set is a subset, its edges are the same, and every node whose key  *)
(* is neither the id of an observable object nor a synthetic key of an     *)
(* embedded entry has the same attributes in both graphs.  Such are the    *)
(* nodes of the domain objects whose id no observable shares.              *)
(***************************************************************************)
\* The keys that the observables of the session are inserted under
ObservableKeys ==
    {Get(Processed[i], "id") : i \in {j \in 1..Len(Processed) : ObservableObject(Processed[j])}}
    \cup UNION {{SyntheticKey(Processed[i], K) : K \in TypedEntries(Processed[i])} :
                  i \in {j \in 1..Len(Processed) : LegacyRecord(Processed[j])}}

C13_ExcludedIsSubgraphApart ==
    (Completed /\ include_scos /\ OtherSession(graph.kind, FALSE).error = "none") =>
        LET without == OtherSession(graph.kind, FALSE).graph
        IN  /\ DOMAIN without.node \subseteq DOMAIN graph.node
            /\ without.adj = graph.adj
            /\ \A n \in DOMAIN without.node \ ObservableKeys : graph.node[n] = without.node[n]
            /\ \A n \in DOMAIN graph.node \ DOMAIN without.node : n \in ObservableKeys

\* A domain object, a legacy record and an observable were converted with
\* observables included; without them the graph has the first two nodes only
C13_Witness ==
    /\ Completed /\ include_scos
    /\ Processed = <<MalwareV1, Observed20, Ipv4>>
    /\ DOMAIN graph.node = {Str("a"), Str("od"), Str("od--embedded-0"), Str("b")}
    /\ DOMAIN OtherSession(graph.kind, FALSE).graph.node = {Str("a"), Str("od")}

(***************************************************************************)
(* C14.  For any sequence of bundles and either value of include_scos, a   *)
(* session in multi-edge mode and a session in simple mode that both run   *)
(* to their end build the same nodes, with the same attributes, and        *)
(* connect the same ordered pairs; simple mode keeps one edge per          *)
(* connected pair and multi-edge mode at least one.                        *)
(***************************************************************************)
OtherKind == IF graph.kind = "digraph" THEN "multidigraph" ELSE "digraph"

C14_ModesShareNodes ==
    (Completed /\ OtherSession(OtherKind, include_scos).error = "none") =>
        LET other == OtherSession(OtherKind, include_scos).graph
        IN  /\ DOMAIN other.node = DOMAIN graph.node
            /\ other.node = graph.node
            /\ DOMAIN other.adj = DOMAIN graph.adj
            /\ \A p \in DOMAIN graph.adj :
                 graph.kind = "multidigraph" =>
                     EdgeCount(other, p[1], p[2]) = 1 /\ EdgeCount(graph, p[1], p[2]) >= 1

\* One relationship was ingested twice, then a sighting: multi-edge mode holds
\* two edges over the relationship's pair and simple mode one, on the same nodes
C14_Witness ==
    /\ Completed /\ graph.kind = "multidigraph"
    /\ Processed = <<Rel1, Rel1, SightMin>>
    /\ DOMAIN graph.node = {Str("a"), Str("b"), Str("s")}
    /\ EdgeCount(graph, Str("a"), Str("b")) = 2
    /\ EdgeCount(OtherSession("digraph", include_scos).graph, Str("a"), Str("b")) = 1

(***************************************************************************)
(* C15.  Relationships become edges and never nodes: no node of the graph  *)
(* has a type attribute equal to relationship.                             *)
(***************************************************************************)
C15_NoRelationshipNode ==
    \A n \in DOMAIN graph.node :
        ~("type" \in DOMAIN graph.node[n] /\ graph.node[n]["type"] = Str("relationship"))

(***************************************************************************)
(* C16.  Relationships are deduplicated by identifier: however many times  *)
(* a relationship object with one id and one pair of endpoints has been    *)
(* ingested, a single edge over that pair carries its id in multi-edge     *)
(* mode, and at most one (the pair's only edge) does in simple mode.       *)
(***************************************************************************)
\* The number of edges from u to v whose id attribute is x
EdgesWithId(g, u, v, x) ==
    IF <<u, v>> \notin DOMAIN g.adj THEN 0
    ELSE IF g.kind = "digraph"
    THEN (IF "id" \in DOMAIN g.adj[<<u, v>>] /\ g.adj[<<u, v>>]["id"] = x THEN 1 ELSE 0)
    ELSE Cardinality({key \in DOMAIN g.adj[<<u, v>>] :
                        /\ "id" \in DOMAIN g.adj[<<u, v>>][key]
                        /\ g.adj[<<u, v>>][key]["id"] = x})

C16_OneEdgePerRelationshipId ==
    Converted =>
        \A i \in 1..Len(Processed) :
            EdgeProducing(Processed[i]) =>
                LET n == EdgesWithId(graph, Get(Processed[i], "source_ref"),
                                     Get(Processed[i], "target_ref"), Get(Processed[i], "id"))
                IN  IF graph.kind = "multidigraph" THEN n = 1 ELSE n <= 1

(***************************************************************************)
(* C17.  Warning accounting: a convert_bundle call that returns from a     *)
(* bundle with a list of objects has emitted one warning per object that   *)
(* is not a mapping, or has no non-empty type, or has no non-empty id and  *)
(* is not of a skippable type, or is a relationship with an id that lacks  *)
(* a non-empty source_ref or target_ref; no other object is warned about.  *)
(***************************************************************************)
WarnedObject(o) ==
    \/ ~isinstance_dict(o)
    \/ ~Truthy(Get(o, "type"))
    \/ ~Truthy(Get(o, "id")) /\ ~SkippableObject(o)
    \/ /\ Get(o, "type") = Str("relationship")
       /\ Truthy(Get(o, "id"))
       /\ ~Truthy(Get(o, "source_ref")) \/ ~Truthy(Get(o, "target_ref"))

NonEmptyString(v) == Kind(v) = "str" /\ v.str # ""

\* o is a relationship with an id whose endpoint references are not both
\* non-empty strings
UnsoundRelationship(o) ==
    /\ isinstance_dict(o)
    /\ Get(o, "type") = Str("relationship")
    /\ Truthy(Get(o, "id"))
    /\ ~NonEmptyString(Get(o, "source_ref")) \/ ~NonEmptyString(Get(o, "target_ref"))

RECURSIVE WithoutUnsound(_)
WithoutUnsound(objs) ==
    IF objs = <<>> THEN <<>>
    ELSE IF UnsoundRelationship(Head(objs)) THEN WithoutUnsound(Tail(objs))
    ELSE <<Head(objs)>> \o WithoutUnsound(Tail(objs))

C18_UnsoundRelationshipDropped ==
    [][ConvertStep =>
        LET objs == Objects(bundles[idx + 1])
            rest == convert_bundle([graph |-> graph, warnings |-> warnings, error |-> "none"],
                                   Bundle(WithoutUnsound(objs)), include_scos)
        IN  /\ graph' = rest.graph
            /\ error' = rest.error
            /\ warnings' = rest.warnings + (Len(objs) - Len(WithoutUnsound(objs)))]_vars

(***************************************************************************)
(* C19.  An object without a non-empty id never changes the graph,         *)
(* whatever its type: each convert_bundle call leaves the graph and the    *)
(* outcome that the same call on the bundle without these objects leaves,  *)
(* and a bundle of such objects alone leaves the graph as it was.  A       *)
(* relationship with populated references and a sighting with populated    *)
(* references are among them.                                              *)
(***************************************************************************)
WithoutId(o) == isinstance_dict(o) /\ ~Truthy(Get(o, "id"))

RECURSIVE WithId(_)
WithId(objs) ==
    IF objs = <<>> THEN <<>>
    ELSE IF WithoutId(Head(objs)) THEN WithId(Tail(objs))
    ELSE <<Head(objs)>> \o WithId(Tail(objs))

C19_NoIdNoChange ==
    [][ConvertStep =>
        LET objs == Objects(bundles[idx + 1])
            rest == convert_bundle([graph |-> graph, warnings |-> warnings, error |-> "none"],
                                   Bundle(WithId(objs)), include_scos)
        IN  /\ graph' = rest.graph
            /\ error' = rest.error
            /\ WithId(objs) = <<>> => graph' = graph]_vars

\* After a bundle that added a node, a bundle of a relationship and a sighting
\* without id, both with populated references, was converted: the graph is
\* still the one node, and both objects were warned about
C19_Witness ==
    /\ Converted /\ idx = 2
    /\ Objects(bundles[1]) = <<Custom>>
    /\ Objects(bundles[2]) = <<RelNoId, SightNoId>>
    /\ DOMAIN graph.node = {Str("c")}
    /\ graph.node[Str("c")] = Custom.dict
    /\ graph.adj = <<>>
    /\ warnings = 2

(***************************************************************************)
(* C20.  Every sighting-derived edge carries exactly one attribute,        *)
(* relationship_type, with a value in {sighting_of, seen_by, observed},    *)
(* and no id, in both graph modes and also when a relationship object      *)
(* connects the same ordered pair.  Stated of the sighting processed last: *)
(* each of its references has such an edge from the sighting's node.       *)
(***************************************************************************)
SightingEdge(e) ==
    /\ DOMAIN e = {"relationship_type"}
    /\ e["relationship_type"] \in {Str(tag) : tag \in SightingTags}

C20_SightingEdgesCarryTagOnly ==
    (Converted /\ Len(Processed) > 0 /\ SightingWithId(Processed[Len(Processed)])) =>
        LET o == Processed[Len(Processed)]
        IN  \A tag \in SightingTags :
                \A j \in 1..Len(RefsOf(o, tag)) :
                    \E e \in EdgeAttrs(graph, Get(o, "id"), RefsOf(o, tag)[j]) : SightingEdge(e)

(***************************************************************************)
(* C21.  The type classifier assigns every type string exactly one class:  *)
(* is_skippable, is_relationship, is_sighting, is_sdo and is_sco are       *)
(* pairwise exclusive, a type that begins with x-mitre- is a domain        *)
(* object, and convert_bundle treats an object as its class prescribes,    *)
(* the classes being tested in the order skippable, relationship,          *)
(* sighting, domain object, observable, and unknown otherwise.             *)
(***************************************************************************)
ClassesOf(o) ==
    {c \in {"skippable", "relationship", "sighting", "domain-object", "observable-object"} :
        CASE c = "skippable" -> is_skippable(o)
          [] c = "relationship" -> is_relationship(o)
          [] c = "sighting" -> is_sighting(o)
          [] c = "domain-object" -> is_sdo(o)
          [] c = "observable-object" -> is_sco(o)}

\* The class of o in the priority order
ClassOf(o) ==
    IF is_skippable(o) THEN "skippable"
    ELSE IF is_relationship(o) THEN "relationship"
    ELSE IF is_sighting(o) THEN "sighting"
    ELSE IF is_sdo(o) THEN "domain-object"
    ELSE IF is_sco(o) THEN "observable-object"
    ELSE "unknown"

\* The graph that one object of the class leaves of the empty graph g
ClassOutcome(g, o, c) ==
    CASE c = "skippable" -> g
      [] c = "relationship" ->
            [g EXCEPT !.node = (Str("a") :> EmptyAttrs) @@ (Str("b") :> EmptyAttrs),
                      !.adj = (<<Str("a"), Str("b")>> :>
                                 IF g.kind = "digraph"
                                 THEN [id |-> Str("n"), sighting_of_ref |-> Str("c")]
                                 ELSE (Num(0) :> [id |-> Str("n"), sighting_of_ref |-> Str("c")]))]
      [] c = "sighting" ->
            [g EXCEPT !.node = (Str("n") :> o.dict) @@ (Str("c") :> EmptyAttrs),
                      !.adj = (<<Str("n"), Str("c")>> :>
                                 IF g.kind = "digraph"
                                 THEN [relationship_type |-> Str("sighting_of")]
                                 ELSE (Num(0) :> [relationship_type |-> Str("sighting_of")]))]
      [] c = "observable-object" /\ ~include_scos -> g
      [] OTHER -> [g EXCEPT !.node = (Str("n") :> o.dict)]

C21_OneClassPerType ==
    /\ [](\A i \in 1..Len(Processed) :
            /\ Cardinality(ClassesOf(Processed[i])) <= 1
            /\ StartsWith(Processed[i].dict["type"].str, "x-mitre-")
                  => ClassesOf(Processed[i]) = {"domain-object"}
            /\ Processed[i].dict["type"].str \in SDO_TYPES
                  => ClassesOf(Processed[i]) = {"domain-object"}
            /\ Processed[i].dict["type"].str \in SCO_TYPES
                  => ClassesOf(Processed[i]) = {"observable-object"}
            /\ Processed[i].dict["type"].str \in {"marking-definition", "language-content"}
                  => ClassesOf(Processed[i]) = {"skippable"})
    /\ [][(ConvertStep /\ idx = 0 /\ Len(Objects(bundles[1])) = 1) =>
            LET o == Objects(bundles[1])[1]
            IN  /\ graph' = ClassOutcome(graph, o, ClassOf(o))
                /\ warnings' = warnings /\ error' = "none"]_vars

\* An object of a custom x-mitre- type was converted to a node
C21_Witness ==
    /\ Converted
    /\ Processed = <<Typed("x-mitre-tactic")>>
    /\ graph.node = (Str("n") :> Typed("x-mitre-tactic").dict)
    /\ graph.adj = <<>>

(***************************************************************************)
(* C22.  An object with an id whose type is in none of the known classes   *)
(* is materialized as one node keyed by its id that carries every field of *)
(* the object, whether observables are included or not; processing it adds *)
(* no other node, no edge and no warning.  The node is new, with exactly   *)
(* the object's fields, unless a node of that key existed, which is then   *)
(* updated with the object's fields.                                       *)
(***************************************************************************)
UnknownObject(o) ==
    /\ isinstance_dict(o)
    /\ Kind(Get(o, "type")) = "str" /\ Truthy(Get(o, "type"))
    /\ Kind(Get(o, "id")) = "str" /\ Truthy(Get(o, "id"))
    /\ Get(o, "type").str \notin
          SDO_TYPES \cup SCO_TYPES \cup SKIP_TYPES \cup {"relationship", "sighting"}
    /\ ~StartsWith(Get(o, "type").str, "x-mitre-")

C22_UnknownBecomesNode ==
    [][(ConvertStep /\ Len(Objects(bundles[idx + 1])) = 1
                    /\ UnknownObject(Objects(bundles[idx + 1])[1])) =>
        LET o == Objects(bundles[idx + 1])[1]
            n == Get(o, "id")
        IN  /\ DOMAIN graph'.node = DOMAIN graph.node \cup {n}
            /\ \A f \in DOMAIN o.dict : f \in DOMAIN graph'.node[n] /\ graph'.node[n][f] = o.dict[f]
            /\ n \notin DOMAIN graph.node => graph'.node[n] = o.dict
            /\ \A m \in DOMAIN graph.node \ {n} : graph'.node[m] = graph.node[m]
            /\ graph'.adj = graph.adj
            /\ warnings' = warnings /\ error' = "none"]_vars

\* With observables excluded, an object of an unknown type was converted
\* after a domain object: it has its node, beside the domain object's
C22_Witness ==
    /\ Converted /\ idx = 2 /\ ~include_scos
    /\ Objects(bundles[1]) = <<MalwareV1>>
    /\ Objects(bundles[2]) = <<Custom>>
    /\ DOMAIN graph.node = {Str("a"), Str("c")}
    /\ graph.node[Str("c")] = Custom.dict
    /\ graph.adj = <<>>
    /\ warnings = 0

(***************************************************************************)
(* C23.  Nothing is ever deleted: no step of a session removes a node key  *)
(* or disconnects an ordered pair, and in multi-edge mode no step lowers   *)
(* the number of edges over a pair.                                        *)
(***************************************************************************)
C23_NothingDeleted ==
    [][/\ DOMAIN graph.node \subseteq DOMAIN graph'.node
       /\ DOMAIN graph.adj \subseteq DOMAIN graph'.adj
       /\ \A p \in DOMAIN graph.adj :
            EdgeCount(graph', p[1], p[2]) >= EdgeCount(graph, p[1], p[2])]_vars

\* A second bundle was converted on a graph that held an edge and its two
\* endpoints: the pair has two edges now and a sighting's node was added
C23_Witness ==
    /\ Converted /\ idx = 2 /\ graph.kind = "multidigraph"
    /\ Objects(bundles[1]) = <<Rel1>>
    /\ Objects(bundles[2]) = <<Rel1, SightMin>>
    /\ DOMAIN graph.node = {Str("a"), Str("b"), Str("s")}
    /\ EdgeCount(graph, Str("a"), Str("b")) = 2

(***************************************************************************)
(* C24.  The loader shields the core: every element of the list of bundles *)
(* that parse_source returns is a mapping, and a list source with an       *)
(* element that is neither a mapping nor the JSON text of a mapping ends   *)
(* the session in a ValueError at the loader, before any convert_bundle    *)
(* call.                                                                   *)
(***************************************************************************)
\* e is a mapping or the JSON text of a mapping
BundleElement(e) ==
    \/ isinstance_dict(e)
    \/ Kind(e) = "str" /\ e.str \in DOMAIN JsonTexts /\ isinstance_dict(JsonTexts[e.str])

C24_LoaderShieldsCore ==
    /\ \A i \in 1..Len(bundles) : isinstance_dict(bundles[i])
    /\ (isinstance_list(source) /\ \E i \in 1..Len(source.list) : ~BundleElement(source.list[i]))
          => \/ pc \in {"call", "parse"}
             \/ pc = "raised" /\ error = "ValueError" /\ idx = 0

(***************************************************************************)
(* C25.  Every abort of a session happens before materialization begins:   *)
(* a session ends in an exception only before its first convert_bundle     *)
(* call, with a ValueError or FileNotFoundError and a graph that holds     *)
(* nothing; once a bundle has been converted the session runs to its end.  *)
(***************************************************************************)
C25_AbortsBeforeMaterialization ==
    pc = "raised" =>
        /\ idx = 0
        /\ error \in {"ValueError", "FileNotFoundError"}
        /\ DOMAIN graph.node = {} /\ DOMAIN graph.adj = {}

(***************************************************************************)
(* C26.  Node merge is a right-biased field union: the attributes of a     *)
(* node that objects with its id were inserted into have as keys the union *)
(* of the keys of all these versions, and each key has the value of the    *)
(* last version processed that contains the key.                           *)
(***************************************************************************)
\* The positions in Processed of the objects inserted as node n
VersionsOf(n) ==
    {i \in 1..Len(Processed) : NodeProducing(Processed[i]) /\ Get(Processed[i], "id") = n}

C26_RightBiasedUnion ==
    Converted =>
        \A n \in DOMAIN graph.node :
            VersionsOf(n) # {} =>
                /\ DOMAIN graph.node[n] = UNION {DOMAIN Processed[i].dict : i \in VersionsOf(n)}
                /\ \A f \in DOMAIN graph.node[n] :
                     graph.node[n][f]
                       = Processed[Max({i \in VersionsOf(n) : f \in DOMAIN Processed[i].dict})].dict[f]

\* The second version of a domain object was inserted after the first: the
\* node has the name of the second and the is_family field of the first
C26_Witness ==
    /\ Converted
    /\ Processed = <<MalwareV1, MalwareV2>>
    /\ graph.node[Str("a")]
         = [type |-> Str("malware"), id |-> Str("a"), name |-> Str("v2"), is_family |-> Bool(TRUE)]

(***************************************************************************)
(* C27.  Re-ingestion: a session that ingests one bundle twice in a row    *)
(* ends with the nodes and node attributes of ingesting it once, in both   *)
(* modes; in simple mode the edges and their attributes are those of       *)
(* ingesting it once as well, and in multi-edge mode every connected pair  *)
(* has twice as many edges.                                                *)
(***************************************************************************)
C27_Reingestion ==
    (Completed /\ Len(bundles) = 2 /\ bundles[1] = bundles[2]) =>
        LET once == ConvertBundles([graph |-> EmptyGraph(graph.kind), warnings |-> 0,
                                    error |-> "none"], <<bundles[1]>>, include_scos).graph
        IN  /\ graph.node = once.node
            /\ DOMAIN graph.adj = DOMAIN once.adj
            /\ graph.kind = "digraph" => graph.adj = once.adj
            /\ graph.kind = "multidigraph" =>
                  \A p \in DOMAIN once.adj :
                      EdgeCount(graph, p[1], p[2]) = 2 * EdgeCount(once, p[1], p[2])

(***************************************************************************)
(* C28.  Dangling endpoints and order independence: both endpoints of      *)
(* every edge exist as nodes, an endpoint that no object defines being a   *)
(* bare stub; and for a bundle of objects with pairwise distinct ids the   *)
(* final graph is the same whether the relationships come before or after  *)
(* the other objects.                                                      *)
(***************************************************************************)
RelationshipObject(o) == isinstance_dict(o) /\ Get(o, "type") = Str("relationship")

\* The objects of a list with its relationships moved to the front, to the end
RelationshipsFirst(objs) ==
    SelectSeq(objs, LAMBDA o : RelationshipObject(o))
        \o SelectSeq(objs, LAMBDA o : ~RelationshipObject(o))

RelationshipsLast(objs) ==
    SelectSeq(objs, LAMBDA o : ~RelationshipObject(o))
        \o SelectSeq(objs, LAMBDA o : RelationshipObject(o))

DistinctIds(objs) ==
    \A i, j \in 1..Len(objs) : i # j => Get(objs[i], "id") # Get(objs[j], "id")

\* The graph of a session on the one bundle of the objects objs
GraphOf(objs) ==
    ConvertBundles([graph |-> EmptyGraph(graph.kind), warnings |-> 0, error |-> "none"],
                   <<Bundle(objs)>>, include_scos).graph

EndpointsExist ==
    /\ \A p \in DOMAIN graph.adj : p[1] \in DOMAIN graph.node /\ p[2] \in DOMAIN graph.node
    /\ \A n \in DOMAIN graph.node : VersionsOf(n) = {} => graph.node[n] = EmptyAttrs

C28_OrderIndependent ==
    (Completed /\ Len(bundles) = 1) =>
        /\ EndpointsExist
        /\ DistinctIds(Processed) =>
              /\ GraphOf(RelationshipsFirst(Processed)) = graph
              /\ GraphOf(RelationshipsLast(Processed)) = graph

(***************************************************************************)
(* C28, as amended.  Both endpoints of every edge exist as nodes, an       *)
(* endpoint that no object defines being a bare stub.  For a bundle of     *)
(* objects with pairwise distinct ids, the nodes, their attributes and the *)
(* connected pairs are the same whether the relationships come before or   *)
(* after the other objects; the edges and their attributes are the same    *)
(* too unless a sighting of the bundle refers from the source of one of    *)
(* the relationships to its target.                                        *)
(***************************************************************************)
\* A sighting among objs adds an edge over the pair of a relationship of objs
SightingSharesPair(objs) ==
    \E i, j \in 1..Len(objs) :
        /\ EdgeProducing(objs[i]) /\ SightingWithId(objs[j])
        /\ Get(objs[i], "source_ref") = Get(objs[j], "id")
        /\ \E tag \in SightingTags : RefCount(objs[j], Get(objs[i], "target_ref"), tag) > 0

C28_OrderIndependentNodes ==
    (Completed /\ Len(bundles) = 1) =>
        /\ EndpointsExist
        /\ DistinctIds(Processed) =>
              \A other \in {GraphOf(RelationshipsFirst(Processed)),
                             GraphOf(RelationshipsLast(Processed))} :
                  /\ other.node = graph.node
                  /\ DOMAIN other.adj = DOMAIN graph.adj
                  /\ ~SightingSharesPair(Processed) => other.adj = graph.adj

\* A relationship was processed before the two objects it refers to: its
\* endpoints carry the attributes of the objects, as when it comes last
C28_Witness ==
    /\ Completed
    /\ Processed = <<Rel1, MalwareV1, ToolB>>
    /\ graph.node = (Str("a") :> MalwareV1.dict) @@ (Str("b") :> ToolB.dict)
    /\ DOMAIN graph.adj = {<<Str("a"), Str("b")>>}
    /\ GraphOf(<<MalwareV1, ToolB, Rel1>>) = graph

(***************************************************************************)
(* C29.  Legacy embedded entries bypass classification: with observables   *)
(* included, every entry of the objects mapping of an observed-data object *)
(* that is a mapping with a non-empty type becomes a node, never an edge,  *)
(* whatever its type; entries that are not mappings or have no type are    *)
(* dropped without a warning; and a record whose objects field is not a    *)
(* mapping gets its own node and no embedded node.  Over records alone,    *)
(* the nodes are the records and their typed entries, there is no edge and *)
(* no warning.                                                             *)
(***************************************************************************)
\* The synthetic keys of the typed entries of the records processed so far
EmbeddedKeys ==
    UNION {IF LegacyRecord(Processed[i])
           THEN {SyntheticKey(Processed[i], K) : K \in TypedEntries(Processed[i])}
           ELSE {} : i \in 1..Len(Processed)}

====
